---------------------------- MODULE Spec2Model ----------------------------
(***************************************************************************)
(* Model of the Nifty signal engine: fetch_data, generate_signals and      *)
(* apply_sl_target of app.py with the module-level script that chains      *)
(* them, and apply_ema_strategy of strategies.py.                          *)
(*                                                                         *)
(* Floating-point prices are modelled as exact rationals n/d (d > 0, in    *)
(* lowest terms); NaN is a value of its own that compares false with       *)
(* everything, as in IEEE arithmetic.  A DataFrame is a record of its      *)
(* index (the timestamps) and its columns (a function from column names    *)
(* to equally long sequences).  DataFrames are objects: the heap maps      *)
(* object references to frames, so that in-place column assignment is      *)
(* visible through every reference to the object.                          *)
(***************************************************************************)
EXTENDS Integers, Sequences, FiniteSets

VARIABLES
    pc,       \* position of the running script
    raw,      \* what yf.download hands back (or that it raised)
    heap,     \* object reference -> DataFrame
    df,       \* the module-level name df: a reference, 0 before assignment
    msg,      \* the st.error / st.warning fetch_data issued ("" = none)
    passed    \* the last engine call: the reference passed, the frame it
              \* held at the call, and the reference returned

vars == <<pc, raw, heap, df, msg, passed>>

---------------------------------------------------------------------------
(* Bounds of the explored inputs *)

\* longest constant-price run at the head of a downloaded series
MaxFlat == 19
\* longest freely chosen tail of a downloaded series
MaxTail == 3
\* longest frame handed directly to an engine function
MaxBars == 3

---------------------------------------------------------------------------
(* Program constants *)

\* STOP_LOSS_PCT = 0.01 and TARGET_PCT = 0.02, as hundredths
StopLossHundredths == 1
TargetHundredths == 2
\* minimum number of rows fetch_data accepts
MinRows == 20
\* ewm spans
FastSpan == 5
SlowSpan == 20

---------------------------------------------------------------------------
(* Values: exact rationals, NaN, and non-numeric cells *)

RECURSIVE Gcd(_, _)
Gcd(a, b) == IF b = 0 THEN a ELSE Gcd(b, a % b)

Abs(a) == IF a < 0 THEN -a ELSE a

\* the number n/d, d > 0, in lowest terms
Num(n, d) ==
    LET g == Gcd(Abs(n), d)
    IN [k |-> "num", n |-> n \div g, d |-> d \div g]

NaN == [k |-> "nan", n |-> 0, d |-> 1]
\* a cell holding text that is not a number
Str == [k |-> "str", n |-> 0, d |-> 1]

IsNum(a) == a.k = "num"
IsNaN(a) == a.k = "nan"

One == Num(1, 1)

RAdd(a, b) ==
    LET g == Gcd(a.d, b.d)
    IN Num(a.n * (b.d \div g) + b.n * (a.d \div g), (a.d \div g) * b.d)

RSub(a, b) == RAdd(a, [b EXCEPT !.n = -b.n])

\* cross-cancelled product
RMul(a, b) ==
    LET g1 == Gcd(Abs(a.n), b.d)
        g2 == Gcd(Abs(b.n), a.d)
    IN Num((a.n \div g1) * (b.n \div g2), (a.d \div g2) * (b.d \div g1))

\* a / b for b > 0
RDiv(a, b) == RMul(a, [k |-> "num", n |-> b.d, d |-> b.n])

\* float comparisons: false as soon as one side is NaN
Gt(a, b) == IsNum(a) /\ IsNum(b) /\ a.n * b.d > b.n * a.d
Lt(a, b) == Gt(b, a)
Le(a, b) == IsNum(a) /\ IsNum(b) /\ a.n * b.d <= b.n * a.d
Ge(a, b) == Le(b, a)

---------------------------------------------------------------------------
(* DataFrames *)

\* pd.DataFrame()
EmptyFrame == [index |-> <<>>, data |-> [c \in {} |-> <<>>]]

Columns(f) == DOMAIN f.data
NRows(f) == Len(f.index)
\* df.empty
IsEmpty(f) == NRows(f) = 0 \/ Columns(f) = {}

\* df[c] = s
SetCol(f, c, s) ==
    [f EXCEPT !.data = [x \in Columns(f) \cup {c} |->
                            IF x = c THEN s ELSE f.data[x]]]

\* Series.shift(1): the previous row's value, NaN on the first row
Shift(s) == [i \in 1..Len(s) |-> IF i = 1 THEN NaN ELSE s[i - 1]]

RECURSIVE KeepRows(_, _)
\* the positions i..Len(keep) whose flag is set, in order
KeepRows(keep, i) ==
    IF i > Len(keep) THEN <<>>
    ELSE IF keep[i] THEN <<i>> \o KeepRows(keep, i + 1)
    ELSE KeepRows(keep, i + 1)

\* df.dropna(subset=cols, inplace=True): drop the rows with a NaN in cols
DropNa(f, cols) ==
    LET keep == [i \in 1..NRows(f) |-> \A c \in cols : ~IsNaN(f.data[c][i])]
        rows == KeepRows(keep, 1)
    IN [index |-> [j \in 1..Len(rows) |-> f.index[rows[j]]],
        data |-> [c \in Columns(f) |->
                    [j \in 1..Len(rows) |-> f.data[c][rows[j]]]]]

\* pd.to_numeric(s, errors='coerce'): text that is no number becomes NaN
ToNumeric(s) == [i \in 1..Len(s) |-> IF s[i].k = "str" THEN NaN ELSE s[i]]


\* pd.api.types.is_numeric_dtype(s): no cell holds text
IsNumericDtype(s) == \A i \in 1..Len(s) : s[i].k # "str"

---------------------------------------------------------------------------
(* Series.ewm(span, adjust).mean(), as pandas computes it: one forward pass *)
(* carrying the running average and the weight of the past.                *)

RECURSIVE EwmPass(_, _, _, _, _, _)
EwmPass(x, alpha, adjust, i, st, out) ==
    IF i > Len(x) THEN out
    ELSE
        LET old == RMul(st.old, RSub(One, alpha))
            new == IF adjust THEN One ELSE alpha
            \* pandas leaves the average alone when the new value equals it
            avg == IF st.avg # x[i]
                   THEN RDiv(RAdd(RMul(old, st.avg), RMul(new, x[i])),
                             RAdd(old, new))
                   ELSE st.avg
            nxt == [avg |-> avg, old |-> IF adjust THEN RAdd(old, new) ELSE One]
        IN EwmPass(x, alpha, adjust, i + 1, nxt, Append(out, avg))

\* variant: ewm(span, min_periods=span): no average before span values
EwmMinPeriods(x, span, adjust) ==
    IF Len(x) = 0 THEN <<>>
    ELSE LET e == EwmPass(x, Num(2, span + 1), adjust, 2,
                          [avg |-> x[1], old |-> One], <<x[1]>>)
         IN [i \in 1..Len(x) |-> IF i < span THEN NaN ELSE e[i]]

\* x holds numbers only (fetch_data has dropped every NaN before it averages)
Ewm(x, span, adjust) ==
    IF Len(x) = 0 THEN <<>>
    ELSE EwmPass(x, Num(2, span + 1), adjust, 2,
                 [avg |-> x[1], old |-> One], <<x[1]>>)

---------------------------------------------------------------------------
(* app.py: fetch_data *)

Failed(m) == [df |-> EmptyFrame, msg |-> m]

\* variant: two rows are enough
TooFewForCrossover(f) == NRows(f) < 2

\* variant: the fast span's worth of rows is enough
TooFewForFast(f) == NRows(f) < FastSpan

\* len(df) < 20
TooFew(f) == NRows(f) < MinRows

FetchData(download) ==
    IF ~download.ok THEN Failed("FetchError")
    ELSE IF IsEmpty(download.frame) THEN Failed("NoData")
    ELSE IF "Close" \notin Columns(download.frame) THEN Failed("NoClose")
    ELSE
        LET d1 == DropNa(download.frame, Columns(download.frame))
        IN IF IsEmpty(d1) THEN Failed("AllDropped")
           ELSE
             LET d2 == SetCol(d1, "Close", ToNumeric(d1.data["Close"]))
                 d3 == DropNa(d2, {"Close"})
                 close == d3.data["Close"]
             IN IF Len(close) = 0 \/ ~IsNumericDtype(close)
                THEN Failed("CloseInvalid")
                ELSE IF TooFew(d3) THEN Failed("InsufficientData")
                ELSE
                  LET d4 == SetCol(d3, "EMA5", Ewm(close, FastSpan, FALSE))
                      d5 == SetCol(d4, "EMA20", Ewm(close, SlowSpan, FALSE))
                  IN [df |-> d5, msg |-> ""]

---------------------------------------------------------------------------
(* app.py: generate_signals *)

\* variant: the prior bar must be strictly below
BuyMaskStrict(fast, slow) ==
    [i \in 1..Len(fast) |->
        Gt(fast[i], slow[i]) /\ Lt(Shift(fast)[i], Shift(slow)[i])]

BuyMask(fast, slow) ==
    [i \in 1..Len(fast) |->
        Gt(fast[i], slow[i]) /\ Le(Shift(fast)[i], Shift(slow)[i])]

\* variant: level-triggered, the prior bar is not looked at
SellMaskLevel(fast, slow) ==
    [i \in 1..Len(fast) |-> i >= 2 /\ Lt(fast[i], slow[i])]

\* variant: the prior bar must be strictly above
SellMaskStrict(fast, slow) ==
    [i \in 1..Len(fast) |->
        Lt(fast[i], slow[i]) /\ Gt(Shift(fast)[i], Shift(slow)[i])]

SellMask(fast, slow) ==
    [i \in 1..Len(fast) |->
        Lt(fast[i], slow[i]) /\ Ge(Shift(fast)[i], Shift(slow)[i])]

\* variant: df.loc[mask] = v, the column forgotten: the whole row is
\* overwritten with the text
SetWhereRow(f, mask, c, v) ==
    [f EXCEPT !.data = [x \in Columns(f) |->
        [i \in 1..NRows(f) |->
            IF mask[i] THEN (IF x = c THEN v ELSE Str) ELSE f.data[x][i]]]]

\* df.loc[mask, c] = v
SetWhere(f, mask, c, v) ==
    SetCol(f, c, [i \in 1..NRows(f) |-> IF mask[i] THEN v ELSE f.data[c][i]])

GenerateSignals(f) ==
    LET f0 == SetCol(f, "Signal", [i \in 1..NRows(f) |-> ""])
    IN IF {"EMA5", "EMA20"} \subseteq Columns(f0)
       THEN LET f1 == SetWhere(f0, BuyMask(f0.data["EMA5"], f0.data["EMA20"]),
                               "Signal", "Buy")
            IN SetWhere(f1, SellMask(f1.data["EMA5"], f1.data["EMA20"]),
                        "Signal", "Sell")
       ELSE f0

---------------------------------------------------------------------------
(* app.py: apply_sl_target *)

\* Python's None in the Entry column
None == [k |-> "none", n |-> 0, d |-> 1]

\* row.get("Signal", "")
RowSignal(f, i) == IF "Signal" \in Columns(f) THEN f.data["Signal"][i] ELSE ""

\* entry * (1 + h/100) for h hundredths
Scaled(entry, h) == RMul(entry, Num(100 + h, 100))

\* variant: the stop of a Buy placed above the entry
StopLossSameSide(f, i) ==
    LET entry == f.data["Entry"][i]
    IN IF RowSignal(f, i) \in {"Buy", "Sell"} /\ entry # None
       THEN Scaled(entry, StopLossHundredths)
       ELSE NaN

\* a row for which the lambda returns None comes out of df.apply as NaN
StopLossOf(f, i) ==
    LET entry == f.data["Entry"][i]
    IN IF RowSignal(f, i) = "Buy" /\ entry # None
       THEN Scaled(entry, -StopLossHundredths)
       ELSE IF RowSignal(f, i) = "Sell" /\ entry # None
       THEN Scaled(entry, StopLossHundredths)
       ELSE NaN

\* variant: zero instead of None on a bar without signal
TargetOrZero(f, i) ==
    LET entry == f.data["Entry"][i]
    IN IF RowSignal(f, i) = "Buy" THEN Scaled(entry, TargetHundredths)
       ELSE IF RowSignal(f, i) = "Sell" THEN Scaled(entry, -TargetHundredths)
       ELSE Num(0, 1)

TargetOf(f, i) ==
    LET entry == f.data["Entry"][i]
    IN IF RowSignal(f, i) = "Buy" /\ entry # None
       THEN Scaled(entry, TargetHundredths)
       ELSE IF RowSignal(f, i) = "Sell" /\ entry # None
       THEN Scaled(entry, -TargetHundredths)
       ELSE NaN

EntryCol(f) ==
    IF "Close" \in Columns(f) /\ IsNumericDtype(f.data["Close"])
    THEN f.data["Close"]
    ELSE [i \in 1..NRows(f) |-> None]

ApplySlTarget(f) ==
    LET f1 == SetCol(f, "Entry", EntryCol(f))
        f2 == SetCol(f1, "StopLoss", [i \in 1..NRows(f1) |-> StopLossOf(f1, i)])
    IN SetCol(f2, "Target", [i \in 1..NRows(f2) |-> TargetOf(f2, i)])

---------------------------------------------------------------------------
(* strategies.py: apply_ema_strategy *)

\* Signal = 0, then 1 where fast > slow, then -1 where fast < slow
SignCol(fast, slow) ==
    [i \in 1..Len(fast) |->
        IF Lt(fast[i], slow[i]) THEN -1
        ELSE IF Gt(fast[i], slow[i]) THEN 1 ELSE 0]

\* Series.diff(): NaN on the first row
Diff(s) == [i \in 1..Len(s) |-> IF i = 1 THEN NaN ELSE Num(s[i] - s[i - 1], 1)]

ApplyEmaStrategy(f) ==
    LET f1 == SetCol(f, "EMA5", Ewm(f.data["Close"], FastSpan, TRUE))
        f2 == SetCol(f1, "EMA20", Ewm(f1.data["Close"], SlowSpan, TRUE))
        f3 == SetCol(f2, "Signal", SignCol(f2.data["EMA5"], f2.data["EMA20"]))
    IN SetCol(f3, "Trade", Diff(f3.data["Signal"]))

---------------------------------------------------------------------------
(* Inputs *)

\* the cells of a downloaded Close column: prices, a missing value, text
TailCells == {Num(3, 1), Num(7, 1), Num(14, 1), NaN, Str}

SeqsUpTo(S, n) == UNION {[1..k -> S] : k \in 0..n}

\* a download: a constant-price run followed by a free tail
CloseFrame(close) ==
    [index |-> [i \in 1..Len(close) |-> i],
     data |-> [c \in {"Close"} |-> close]]

FlatPrices == {Num(7, 1), Num(14, 1)}

Downloads ==
    {[ok |-> TRUE,
      frame |-> CloseFrame([i \in 1..h[1] |-> h[2]] \o t)] :
        h \in (0..MaxFlat) \X FlatPrices, t \in SeqsUpTo(TailCells, MaxTail)}
    \cup {[ok |-> TRUE,
           frame |-> [index |-> <<1>>, data |-> [c \in {"Open"} |-> <<Num(7, 1)>>]]]}
    \cup {[ok |-> FALSE, frame |-> EmptyFrame]}

\* no download: an engine function is called on a frame of the caller's
NoDownload == [ok |-> FALSE, frame |-> EmptyFrame]

\* a bar of a frame handed to the engine: its close and its two averages
Bars ==
    [close : {Num(100, 1), Num(7, 1)},
     fast : {Num(1, 1), Num(2, 1), Num(3, 1)},
     slow : {Num(1, 1), Num(2, 1)}]

BarFrame(bars) ==
    [index |-> [i \in 1..Len(bars) |-> i],
     data |-> [c \in {"Close", "EMA5", "EMA20"} |->
                 [i \in 1..Len(bars) |->
                     IF c = "Close" THEN bars[i].close
                     ELSE IF c = "EMA5" THEN bars[i].fast
                     ELSE bars[i].slow]]]

CallerFrames == {BarFrame(b) : b \in SeqsUpTo(Bars, MaxBars) \ {<<>>}}

---------------------------------------------------------------------------
(* The state machine *)

NoCall == [fn |-> "", ref |-> 0, snap |-> EmptyFrame, ret |-> 0]

Init ==
    /\ msg = ""
    /\ passed = NoCall
    /\ \/ /\ pc = "start"            \* the script app.py is run
          /\ raw \in Downloads
          /\ heap = <<>>
          /\ df = 0
       \/ /\ pc = "caller"           \* an engine function is to be called
          /\ raw = NoDownload
          /\ \E f \in CallerFrames : heap = <<f>>
          /\ df = 1

\* df = fetch_data()
Fetch ==
    /\ pc = "start"
    /\ LET r == FetchData(raw)
       IN /\ heap' = Append(heap, r.df)
          /\ df' = Len(heap) + 1
          /\ msg' = r.msg
    /\ pc' = "fetched"
    /\ UNCHANGED <<raw, passed>>

\* the condition of the script's if
ScriptGuard ==
    /\ ~IsEmpty(heap[df])
    /\ {"Close", "EMA5", "EMA20"} \subseteq Columns(heap[df])

\* a function that assigns columns of its argument and returns it:
\* the object df refers to is updated in place, df = fn(df) rebinds df to it
InPlaceCall(fn, result) ==
    /\ heap' = [heap EXCEPT ![df] = result]
    /\ passed' = [fn |-> fn, ref |-> df, snap |-> heap[df], ret |-> df]
    /\ df' = df
    /\ UNCHANGED <<raw, msg>>

\* df = generate_signals(df), in the script
ScriptGenerateSignals ==
    /\ pc = "fetched"
    /\ ScriptGuard
    /\ InPlaceCall("generate_signals", GenerateSignals(heap[df]))
    /\ pc' = "signalled"

\* the script's else branch: st.error, no signals
ScriptFail ==
    /\ pc = "fetched"
    /\ ~ScriptGuard
    /\ pc' = "failed"
    /\ UNCHANGED <<raw, heap, df, msg, passed>>

\* generate_signals(df) on a caller's frame
CallGenerateSignals ==
    /\ pc = "caller"
    /\ InPlaceCall("generate_signals", GenerateSignals(heap[df]))
    /\ pc' = "signalled"

\* df = apply_sl_target(df)
CallApplySlTarget ==
    /\ pc = "signalled"
    /\ InPlaceCall("apply_sl_target", ApplySlTarget(heap[df]))
    /\ pc' = "annotated"

\* apply_ema_strategy(df) on a caller's frame
CallApplyEmaStrategy ==
    /\ pc = "caller"
    /\ InPlaceCall("apply_ema_strategy", ApplyEmaStrategy(heap[df]))
    /\ pc' = "strategy"

Next ==
    \/ Fetch
    \/ ScriptGenerateSignals
    \/ ScriptFail
    \/ CallGenerateSignals
    \/ CallApplySlTarget
    \/ CallApplyEmaStrategy

Spec == Init /\ [][Next]_vars

---------------------------------------------------------------------------
(* Vocabulary of the properties *)

\* the frame the name df refers to
Frame == heap[df]
Rows == 1..NRows(Frame)
Col(c) == Frame.data[c]

\* the states of a run of the script app.py
InScript == pc \in {"start", "fetched", "failed"} \/ raw.ok
\* generate_signals has run on Frame
Signalled == pc \in {"signalled", "annotated"}

\* sign of a - b for two numbers
Cmp(a, b) ==
    LET x == a.n * b.d - b.n * a.d
    IN IF x > 0 THEN 1 ELSE IF x < 0 THEN -1 ELSE 0

\* sign of fast - slow on bar i
Side(i) == Cmp(Col("EMA5")[i], Col("EMA20")[i])

HasSignal(i) == Col("Signal")[i] \in {"Buy", "Sell"}

---------------------------------------------------------------------------
\* C1: after generate_signals, bar i carries Buy exactly when fast is above
\* slow on i and was not above on i-1, Sell exactly when fast is below slow
\* on i and was not below on i-1, and no signal otherwise; the first bar
\* carries none, and every bar carries one value only.
C1_CrossoverRule ==
    Signalled =>
        \A i \in Rows :
            /\ Col("Signal")[i] \in {"", "Buy", "Sell"}
            /\ Col("Signal")[i] = "Buy"
                  <=> (i >= 2 /\ Side(i) = 1 /\ Side(i - 1) <= 0)
            /\ Col("Signal")[i] = "Sell"
                  <=> (i >= 2 /\ Side(i) = -1 /\ Side(i - 1) >= 0)
            /\ (i = 1 => Col("Signal")[i] = "")

\* a Buy fired from an exact tie, followed by a Sell
C1_Witness ==
    /\ Signalled
    /\ \E i \in Rows : /\ i >= 2 /\ i + 1 \in Rows
                        /\ Col("Signal")[i] = "Buy" /\ Side(i - 1) = 0
                        /\ Col("Signal")[i + 1] = "Sell"

\* a..b is a maximal run of bars on side sd
MaximalRun(a, b, sd) ==
    /\ a <= b
    /\ \A j \in a..b : Side(j) = sd
    /\ (a = 1 \/ Side(a - 1) # sd)
    /\ (b = NRows(Frame) \/ Side(b + 1) # sd)

\* the bars where the side changes to sd
Crossings(sd) == {i \in Rows : i >= 2 /\ Side(i) = sd /\ Side(i - 1) # sd}

\* C2: only crossing edges fire: a maximal run of bars with fast above slow
\* that is entered from an earlier bar carries exactly one Buy, on its first
\* bar; a run that starts the series carries none; the same for Sell and
\* runs with fast below slow.  So with one up-cross and one down-cross there
\* is one Buy and one Sell, each on its crossing bar, and nothing else.
C2_EdgeTriggered ==
    Signalled =>
        /\ \A a, b \in Rows :
              /\ MaximalRun(a, b, 1) =>
                    {j \in a..b : Col("Signal")[j] = "Buy"}
                        = IF a >= 2 THEN {a} ELSE {}
              /\ MaximalRun(a, b, -1) =>
                    {j \in a..b : Col("Signal")[j] = "Sell"}
                        = IF a >= 2 THEN {a} ELSE {}
        /\ (Cardinality(Crossings(1)) = 1 /\ Cardinality(Crossings(-1)) = 1) =>
              /\ {i \in Rows : Col("Signal")[i] = "Buy"} = Crossings(1)
              /\ {i \in Rows : Col("Signal")[i] = "Sell"} = Crossings(-1)
              /\ \A i \in Rows : i \notin Crossings(1) \cup Crossings(-1)
                                    => Col("Signal")[i] = ""

\* a run of two bars above that fired once, with one up-cross and one
\* down-cross in the series
C2_Witness ==
    /\ Signalled
    /\ \E a \in Rows : a >= 2 /\ a + 1 \in Rows /\ MaximalRun(a, a + 1, 1)
                          /\ Col("Signal")[a] = "Buy" /\ Col("Signal")[a + 1] = ""
    /\ Cardinality(Crossings(1)) = 1
    /\ Cardinality(Crossings(-1)) = 1

---------------------------------------------------------------------------
\* v = e * (100 + h) / 100, by cross-multiplication
IsScaled(v, e, h) == IsNum(v) /\ v.n * 100 * e.d = e.n * (100 + h) * v.d

\* C3: after apply_sl_target, a bar with a signal has its close as entry;
\* a Buy has stop_loss = entry * 0.99 and target = entry * 1.02, a Sell has
\* stop_loss = entry * 1.01 and target = entry * 0.98 (entry 100: 99 and 102,
\* 101 and 98); so for a positive entry a Buy has stop_loss < entry < target
\* and a Sell has target < entry < stop_loss.
C3_Brackets ==
    pc = "annotated" =>
        \A i \in Rows :
            LET e == Col("Entry")[i]
                sl == Col("StopLoss")[i]
                tg == Col("Target")[i]
            IN /\ HasSignal(i) => e = Col("Close")[i]
               /\ Col("Signal")[i] = "Buy" =>
                     /\ IsScaled(sl, e, -1) /\ IsScaled(tg, e, 2)
                     /\ (e = Num(100, 1) => sl = Num(99, 1) /\ tg = Num(102, 1))
                     /\ (e.n > 0 => Cmp(sl, e) = -1 /\ Cmp(e, tg) = -1)
               /\ Col("Signal")[i] = "Sell" =>
                     /\ IsScaled(sl, e, 1) /\ IsScaled(tg, e, -2)
                     /\ (e = Num(100, 1) => sl = Num(101, 1) /\ tg = Num(98, 1))
                     /\ (e.n > 0 => Cmp(tg, e) = -1 /\ Cmp(e, sl) = -1)

\* a Buy and a Sell, both entered at 100
C3_Witness ==
    /\ pc = "annotated"
    /\ \E i, j \in Rows :
          /\ Col("Signal")[i] = "Buy" /\ Col("Entry")[i] = Num(100, 1)
          /\ Col("StopLoss")[i] = Num(99, 1)
          /\ Col("Signal")[j] = "Sell" /\ Col("Entry")[j] = Num(100, 1)
          /\ Col("Target")[j] = Num(98, 1)

\* C4, as claimed: entry, stop_loss and target are each present on a bar
\* exactly when the bar carries a signal.
C4_AllThreeOnlyOnSignal ==
    pc = "annotated" =>
        \A i \in Rows :
            /\ IsNum(Col("Entry")[i]) <=> HasSignal(i)
            /\ IsNum(Col("StopLoss")[i]) <=> HasSignal(i)
            /\ IsNum(Col("Target")[i]) <=> HasSignal(i)

\* C4, amended: stop_loss and target are present on a bar exactly when the
\* bar carries a signal and are missing (NaN, not zero) otherwise; entry is
\* present on every bar, signal or not, and equals the bar's close.
C4_BracketsOnlyOnSignal ==
    pc = "annotated" =>
        \A i \in Rows :
            /\ IsNum(Col("StopLoss")[i]) <=> HasSignal(i)
            /\ IsNum(Col("Target")[i]) <=> HasSignal(i)
            /\ ~HasSignal(i) => IsNaN(Col("StopLoss")[i]) /\ IsNaN(Col("Target")[i])
            /\ IsNum(Col("Entry")[i]) /\ Col("Entry")[i] = Col("Close")[i]

\* a frame with a signalled bar and an unsignalled bar that has an entry
C4_Witness ==
    /\ pc = "annotated"
    /\ \E i \in Rows : HasSignal(i) /\ IsNum(Col("Target")[i])
    /\ \E i \in Rows : /\ ~HasSignal(i) /\ IsNum(Col("Entry")[i])
                        /\ IsNaN(Col("StopLoss")[i])

---------------------------------------------------------------------------
\* avg is as long as x, starts at x[1] and follows
\* avg[i] = a * x[i] + (1 - a) * avg[i-1] with a = 2 / (k + 1)
Recurrence(x, avg, k) ==
    /\ Len(avg) = Len(x)
    /\ \A i \in 1..Len(x) :
          avg[i] = IF i = 1 THEN x[1]
                   ELSE RAdd(RMul(Num(2, k + 1), x[i]),
                             RMul(Num(k - 1, k + 1), avg[i - 1]))

\* fetch_data returned a frame with its averages
Fetched == InScript /\ pc \in {"fetched", "signalled", "annotated"} /\ ScriptGuard

\* C5, the part about fetch_data: its EMA5 and EMA20 follow the recurrence
\* for spans 5 and 20.
C5_FetchDataRecurrence ==
    Fetched => /\ Recurrence(Col("Close"), Col("EMA5"), 5)
               /\ Recurrence(Col("Close"), Col("EMA20"), 20)

\* C5: every moving average the repository computes, those of fetch_data
\* and those of apply_ema_strategy, is as long as the close series and
\* follows avg[0] = close[0], avg[i] = a*close[i] + (1-a)*avg[i-1] with
\* a = 2/(k+1), for k = 5 and k = 20.
C5_EveryAverageFollowsRecurrence ==
    (Fetched \/ pc = "strategy") =>
        /\ Recurrence(Col("Close"), Col("EMA5"), 5)
        /\ Recurrence(Col("Close"), Col("EMA20"), 20)

---------------------------------------------------------------------------
\* the number of bars of the download with a numeric close
ValidBars ==
    IF raw.ok /\ "Close" \in Columns(raw.frame)
    THEN Cardinality({i \in 1..NRows(raw.frame) :
                         IsNum(raw.frame.data["Close"][i])})
    ELSE 0

\* the script has produced an annotated series
Annotated == InScript /\ pc = "annotated"

---------------------------------------------------------------------------
\* the columns an engine function assigns
Assigned(fn) ==
    IF fn = "generate_signals" THEN {"Signal"}
    ELSE IF fn = "apply_sl_target" THEN {"Entry", "StopLoss", "Target"}
    ELSE {"EMA5", "EMA20", "Signal", "Trade"}

\* the result of the last call has one bar per bar passed, in the same
\* order, with the same timestamp and close
SameBars ==
    /\ heap[passed.ret].index = passed.snap.index
    /\ heap[passed.ret].data["Close"] = passed.snap.data["Close"]

---------------------------------------------------------------------------
\* every close of the frame is the same
ConstantClose == \A i \in Rows : Col("Close")[i] = Col("Close")[1]

---------------------------------------------------------------------------
\* Trade of the sign-tracking formulation on the frame's two averages
Trade == Diff(SignCol(Col("EMA5"), Col("EMA20")))

\* the signal of generate_signals agrees with the sign of Trade on bar i
AgreesWithTrade(i) ==
    /\ Col("Signal")[i] = "Buy" <=> Trade[i].n > 0
    /\ Col("Signal")[i] = "Sell" <=> Trade[i].n < 0
    /\ Col("Signal")[i] = "" <=> Trade[i].n = 0

\* C10, as claimed: on every bar i >= 1, ties included, generate_signals
\* emits Buy exactly when Trade > 0, Sell exactly when Trade < 0 and no
\* signal exactly when Trade = 0.
C10_EquivalentToSignTracking ==
    Signalled => \A i \in Rows : i >= 2 => AgreesWithTrade(i)

\* C10, amended: the two agree on every bar i >= 1 where fast[i] # slow[i];
\* on a bar where fast[i] = slow[i] generate_signals emits no signal,
\* whatever Trade is there.
C10_EquivalentOffTies ==
    Signalled =>
        \A i \in Rows : i >= 2 =>
            IF Side(i) # 0 THEN AgreesWithTrade(i) ELSE Col("Signal")[i] = ""

\* a Sell that agrees with Trade, and a tie reached from above where Trade
\* is negative and no signal is emitted
C10_Witness ==
    /\ Signalled
    /\ \E i \in Rows : i >= 2 /\ Col("Signal")[i] = "Sell" /\ Trade[i].n < 0
                          /\ Side(i - 1) = 0
    /\ \E i \in Rows : i >= 2 /\ Side(i) = 0 /\ Trade[i].n < 0
                          /\ Col("Signal")[i] = ""

=============================================================================
